---- MODULE Spec2Model ----
(***************************************************************************)
(* Model of the MEDAI yoga pose pipeline.                                  *)
(*                                                                         *)
(*  - PoseDetectionService.js: processFrame (server call gated by          *)
(*    serverHealth, interpolation / default-skeleton fallback),            *)
(*    interpolateKeypoints, addNaturalVariation, resetPoseData.            *)
(*  - YogaPoseEstimator.js: the React component that drives the 500 ms     *)
(*    frame interval and the 30 s feedback interval.                       *)
(*                                                                         *)
(* Numbers are fixed point.  Coordinates are in units of 1e-5 (so 1.0 is   *)
(* 100000), scores in units of 1e-3, accuracies in units of 1e-2 percent,  *)
(* Math.random() draws in units of 1e-2 (0..99), times in milliseconds.    *)
(***************************************************************************)
EXTENDS Integers, Sequences, FiniteSets, TLC

VARIABLES
    \* ---- PoseDetectionService.js module state
    lastServerKeypoints,     \* keypoints value: [present, kps]
    lastKeypointsTimestamp,
    previousFrameKeypoints,  \* keypoints value: [present, kps]
    lastAccuracy,
    serverHealth,            \* [lastSuccess, failedAttempts]
    \* ---- environment of the service
    now,                     \* Date.now()
    rng,                     \* Math.random(): the position in the stream of draws
    inflight,                \* processFrame calls suspended at the await of axios.post
    calls,                   \* number of processFrame calls begun so far
    resets,                  \* number of resetPoseData calls so far
    activePose,              \* the pose the caller is practising
    last,                    \* the most recently completed service operation
    gatedAt,                 \* the time the last request left with failedAttempts >= 3, if any did
    \* ---- YogaPoseEstimator.js component
    est,                     \* React state, refs and captured closures
    timers,                  \* active setInterval / setTimeout handles of the JS runtime
    reqs,                    \* component requests suspended at an await
    shown,                   \* history of the component: what happened since the session ended
    \* ---- the helpers of PoseDetectionService.js on their own
    pure,                    \* the last application of a helper: its arguments and its value
    \* ---- the chat history kept in AsyncStorage
    chat                     \* [stored, ops, next, added, updated]

svcVars == <<lastServerKeypoints, lastKeypointsTimestamp, previousFrameKeypoints,
             lastAccuracy, serverHealth, now, rng, inflight, calls, resets,
             activePose, last, gatedAt>>
estVars == <<est, timers, reqs, shown>>
vars == <<svcVars, estVars, pure, chat>>

----------------------------------------------------------------------------
(* Bounds of the model *)

\* processFrame calls per behaviour
MaxCalls == 5
\* resetPoseData calls per behaviour
MaxResets == 1
\* requests the component starts per behaviour
MaxRequests == 3
\* processFrame calls suspended at their request at one time
MaxInflight == 2
\* messages added to the chat history per behaviour
MaxMessages == 3
\* Date.now() when the module is loaded (lastSuccess starts at 0, far in the past)
Epoch == 20000
\* how far the clock runs past Epoch, in milliseconds
Horizon == 5001
\* bits of the significand of the floating-point format
Precision == 3
\* bits of the largest magnitude the format's operations meet
FloatBits == 10

----------------------------------------------------------------------------
(* Fixed-point scales and program constants *)

\* 1.0 as a coordinate: the upper clamp of Math.min(1, ...)
CoordOne == 100000
\* 100 percent as an accuracy: the upper clamp of Math.min(100, ...)
AccuracyMax == 10000
\* 1.0 as a Math.random() value (never drawn: draws are < 1)
RandOne == 100
\* serverHealth.retryInterval
RetryInterval == 5000
\* the literal of `serverHealth.failedAttempts < 3`
FailureThreshold == 3
\* lastAccuracy initial / reset value and the neutral accuracy of the default branch (50)
NeutralAccuracy == 5000
\* setInterval(processFrame, 500)
FrameIntervalMs == 500
\* 1.0 as a factor of interpolateKeypoints in the rounded arithmetic (quarters)
FactorOne == 4

Max(a, b) == IF a >= b THEN a ELSE b
Min(a, b) == IF a <= b THEN a ELSE b

----------------------------------------------------------------------------
(* Keypoints *)

Kp(part, x, y, score) == [part |-> part, x |-> x, y |-> y, score |-> score]

\* JS null / undefined, and a present array
Absent == [present |-> FALSE, kps |-> <<>>]
Some(kps) == [present |-> TRUE, kps |-> kps]

DEFAULT_POSE_KEYPOINTS ==
    [p \in {"1-1", "1-2"} |->
       IF p = "1-1" THEN
         << Kp("nose", 50000, 10000, 1000),
            Kp("left_eye", 47000, 9000, 1000),
            Kp("right_eye", 53000, 9000, 1000),
            Kp("left_ear", 44000, 10000, 1000),
            Kp("right_ear", 56000, 10000, 1000),
            Kp("left_shoulder", 42000, 22000, 1000),
            Kp("right_shoulder", 58000, 22000, 1000),
            Kp("left_elbow", 40000, 38000, 1000),
            Kp("right_elbow", 60000, 38000, 1000),
            Kp("left_wrist", 38000, 52000, 1000),
            Kp("right_wrist", 62000, 52000, 1000),
            Kp("left_hip", 46000, 54000, 1000),
            Kp("right_hip", 54000, 54000, 1000),
            Kp("left_knee", 46000, 74000, 1000),
            Kp("right_knee", 54000, 74000, 1000),
            Kp("left_ankle", 46000, 94000, 1000),
            Kp("right_ankle", 54000, 94000, 1000) >>
       ELSE
         << Kp("nose", 50000, 35000, 1000),
            Kp("left_eye", 48000, 33000, 1000),
            Kp("right_eye", 52000, 33000, 1000),
            Kp("left_ear", 46000, 34000, 1000),
            Kp("right_ear", 54000, 34000, 1000),
            Kp("left_shoulder", 38000, 40000, 1000),
            Kp("right_shoulder", 62000, 40000, 1000),
            Kp("left_elbow", 30000, 50000, 1000),
            Kp("right_elbow", 70000, 50000, 1000),
            Kp("left_wrist", 25000, 60000, 1000),
            Kp("right_wrist", 75000, 60000, 1000),
            Kp("left_hip", 40000, 65000, 1000),
            Kp("right_hip", 60000, 65000, 1000),
            Kp("left_knee", 35000, 75000, 1000),
            Kp("right_knee", 65000, 75000, 1000),
            Kp("left_ankle", 30000, 85000, 1000),
            Kp("right_ankle", 70000, 85000, 1000) >> ]

\* A lookup that ignores the pose and always gives the mountain pose.
DefaultKeypointsAlwaysMountain(poseId) == DEFAULT_POSE_KEYPOINTS["1-1"]

\* `poseId in DEFAULT_POSE_KEYPOINTS ? DEFAULT_POSE_KEYPOINTS[poseId] : DEFAULT_POSE_KEYPOINTS['1-1']`
DefaultKeypointsFor(poseId) ==
    IF poseId \in DOMAIN DEFAULT_POSE_KEYPOINTS
    THEN DEFAULT_POSE_KEYPOINTS[poseId]
    ELSE DEFAULT_POSE_KEYPOINTS["1-1"]

----------------------------------------------------------------------------
(* Inputs: pose identifiers, images, random streams, server responses *)

\* "1-2" has a canned default of its own, "9-9" has none
PoseIds == {"1-2", "9-9"}

\* imageData: a data URI, raw base64, or something that is not a string
Images == { [isString |-> TRUE,  prefixed |-> TRUE],
            [isString |-> TRUE,  prefixed |-> FALSE],
            [isString |-> FALSE, prefixed |-> FALSE] }

\* `if (!imageData.startsWith('data:image/')) imageData = 'data:image/jpeg;base64,' + imageData`
NormalizeImage(img) == [img EXCEPT !.prefixed = TRUE]

\* Math.random(): the generator is a stream of draws in [0, 1), here in 1/100,
\* so 0 is the least draw and 99 the largest.  The stream modelled alternates
\* the least and the largest draw; rnd is the number of draws already taken
\* from it, modulo its period, and the stream may start with either draw.
RandomPeriod == {0, 1}
Draw(rnd, i) == IF (rnd + i) % 2 = 1 THEN 0 ELSE RandOne - 1
Taken(rnd, n) == (rnd + n) % 2

\* Keypoint sets the server answers with: sparse, in any order, and with the
\* coordinates it chooses, a joint it places outside the frame included.
ServerKeypointSets ==
    { << Kp("nose", 50000, 12000, 900),
         Kp("left_shoulder", 41000, 25000, 800),
         Kp("left_hip", 45000, 56000, 700) >>,
      << Kp("left_hip", 0, CoordOne, 100),
         Kp("nose", CoordOne + 20000, -3000, 0) >> }
ServerAccuracies == {0, AccuracyMax}

\* What the await of axios.post ends with.
\*   timeout, network : axios rejects
\*   unsuccessful     : a response whose data has no truthy `success`
\*   nodata           : success is true and response.data.data is missing
\*   nokeypoints      : success is true, data carries accuracy and no keypoints
\*   ok               : success is true, data carries keypoints and accuracy
Responses ==
    { [kind |-> k, keypoints |-> Absent, accuracy |-> 0] :
          k \in {"timeout", "network", "unsuccessful", "nodata"} }
    \cup { [kind |-> "nokeypoints", keypoints |-> Absent, accuracy |-> a] :
          a \in {AccuracyMax} }
    \cup { [kind |-> "ok", keypoints |-> Some(K), accuracy |-> a] :
          K \in ServerKeypointSets, a \in ServerAccuracies }

----------------------------------------------------------------------------
(* Pure functions of PoseDetectionService.js *)

\* a + (b - a) * factor, factor in tenths, at the resolution of the fixed point
\* (the rounding of the doubles is far below that resolution)
Lerp(a, b, factor) == a + ((b - a) * factor) \div 10

\* JS Numbers are binary floating point: every operation gives the exact
\* result rounded to the nearest value of the format, ties to even.  The
\* format here has a significand of Precision bits; a value is an integer
\* count of its smallest quantum, and 1.0 is FloatOne.
BitLength(m) ==
    IF m = 0 THEN 0 ELSE CHOOSE k \in 1..FloatBits : 2^(k-1) <= m /\ m < 2^k
RoundMagnitude(m) ==
    IF m < 2^Precision THEN m
    ELSE LET q == 2^(BitLength(m) - Precision)
             lo == (m \div q) * q
         IN IF 2 * (m - lo) < q THEN lo
            ELSE IF 2 * (m - lo) > q THEN lo + q
            ELSE IF (m \div q) % 2 = 0 THEN lo ELSE lo + q
RoundToNearest(v) == IF v < 0 THEN -RoundMagnitude(-v) ELSE RoundMagnitude(v)

\* prevKp + (targetKp - prevKp) * factor in that arithmetic, factor in
\* quarters (0.25, 0.5, 0.75 and 1.0 are exact in binary).  Operands are
\* multiples of FactorOne quanta, so that a product by a quarter is a whole
\* number of quanta before it is rounded.
LerpRounded(a, b, factor) ==
    LET difference == RoundToNearest(b - a)
        scaled == RoundToNearest((difference * factor) \div FactorOne)
    IN RoundToNearest(a + scaled)

\* prevKeypointMap[part]: forEach overwrites, so the last keypoint of a part wins
PrevKeypointMap(previousKeypoints, part) ==
    LET idx == {i \in DOMAIN previousKeypoints : previousKeypoints[i].part = part}
    IN IF idx = {} THEN Absent
       ELSE Some(<<previousKeypoints[CHOOSE i \in idx : \A j \in idx : j <= i]>>)

\* interpolateKeypoints as the pipeline uses it, at fixed-point resolution
interpolateKeypoints(previousKeypoints, targetKeypoints, factor) ==
    [i \in DOMAIN targetKeypoints |->
        LET targetKp == targetKeypoints[i]
            found == PrevKeypointMap(previousKeypoints, targetKp.part)
        IN IF ~found.present THEN targetKp
           ELSE LET prevKp == found.kps[1]
                IN [part |-> targetKp.part,
                    x |-> Lerp(prevKp.x, targetKp.x, factor),
                    y |-> Lerp(prevKp.y, targetKp.y, factor),
                    score |-> Lerp(prevKp.score, targetKp.score, factor)]]

\* An interpolation that pairs the two sets by index instead of by part.
interpolateKeypointsByIndex(previousKeypoints, targetKeypoints, factor) ==
    [i \in DOMAIN targetKeypoints |->
        LET targetKp == targetKeypoints[i]
        IN IF i \notin DOMAIN previousKeypoints THEN targetKp
           ELSE LET prevKp == previousKeypoints[i]
                IN [part |-> prevKp.part,
                    x |-> LerpRounded(prevKp.x, targetKp.x, factor),
                    y |-> LerpRounded(prevKp.y, targetKp.y, factor),
                    score |-> LerpRounded(prevKp.score, targetKp.score, factor)]]

\* interpolateKeypoints as the Numbers compute it, operation by operation
interpolateKeypointsRounded(previousKeypoints, targetKeypoints, factor) ==
    [i \in DOMAIN targetKeypoints |->
        LET targetKp == targetKeypoints[i]
            found == PrevKeypointMap(previousKeypoints, targetKp.part)
        IN IF ~found.present THEN targetKp
           ELSE LET prevKp == found.kps[1]
                IN [part |-> targetKp.part,
                    x |-> LerpRounded(prevKp.x, targetKp.x, factor),
                    y |-> LerpRounded(prevKp.y, targetKp.y, factor),
                    score |-> LerpRounded(prevKp.score, targetKp.score, factor)]]

\* ['left_shoulder', 'right_shoulder', 'left_hip', 'right_hip'].includes(kp.part)
isStablePoint(part) ==
    part \in {"left_shoulder", "right_shoulder", "left_hip", "right_hip"}

\* The same variation for every joint.
variationFactorUniform(part) == 500

\* isStablePoint ? 0.002 : 0.005
variationFactor(part) == IF isStablePoint(part) THEN 200 ELSE 500

\* (Math.random() - 0.5) * scale, r in 1/100
Variation(r, scale) == ((r - RandOne \div 2) * scale) \div RandOne

\* Math.max(lo, Math.min(hi, v))
Clamp(lo, hi, v) == Max(lo, Min(hi, v))

\* The i-th keypoint takes draws 2i-1 (x) and 2i (y) of the stream.
addNaturalVariation(keypoints, rnd) ==
    [i \in DOMAIN keypoints |->
        LET kp == keypoints[i]
            xVariation == Variation(Draw(rnd, 2 * i - 1), variationFactor(kp.part))
            yVariation == Variation(Draw(rnd, 2 * i), variationFactor(kp.part))
        IN [kp EXCEPT !.x = Clamp(0, CoordOne, kp.x + xVariation),
                      !.y = Clamp(0, CoordOne, kp.y + yVariation)]]

\* A gate that stays shut once the failures reach the threshold.
ShouldAttemptRemoteNoRetry(health, currentTime) ==
    health.failedAttempts < FailureThreshold

\* A gate that reopens as soon as the retry interval is reached, not exceeded.
ShouldAttemptRemoteAtInterval(health, currentTime) ==
    \/ health.failedAttempts < FailureThreshold
    \/ currentTime - health.lastSuccess >= RetryInterval

\* serverHealth.failedAttempts < 3 || currentTime - serverHealth.lastSuccess > serverHealth.retryInterval
ShouldAttemptRemote(health, currentTime) ==
    \/ health.failedAttempts < FailureThreshold
    \/ currentTime - health.lastSuccess > RetryInterval

\* response.data && response.data.success, and response.data.data can be read
ResponseAccepted(resp) == resp.kind \in {"ok", "nokeypoints"}

\* serverHealth.failedAttempts++
RecordFailure(health) == [health EXCEPT !.failedAttempts = @ + 1]

\* A success that stamps the time and leaves the failure count alone.
RecordSuccessKeepsCount(health, currentTime) ==
    [health EXCEPT !.lastSuccess = currentTime]

\* serverHealth.lastSuccess = currentTime; serverHealth.failedAttempts = 0
RecordSuccess(health, currentTime) ==
    [lastSuccess |-> currentTime, failedAttempts |-> 0]

\* A perturbation of the accuracy that is not clamped to [0, 100].
DisplayAccuracyUnclamped(accuracy, r) == accuracy + Variation(r, 300)

\* displayAccuracy = Math.max(0, Math.min(100, lastAccuracy + (Math.random() - 0.5) * 3))
DisplayAccuracy(accuracy, r) ==
    Clamp(0, AccuracyMax, accuracy + Variation(r, 300))

Result(kv, accuracy, fromServer) ==
    [keypoints |-> kv, accuracy |-> accuracy, fromServer |-> fromServer]

\* The part of processFrame after the server branch: interpolation when both
\* caches are set, the default skeleton otherwise.  Gives the branch taken,
\* the new previousFrameKeypoints, the returned result and the generator as
\* the call leaves it.
Fallback(server, previous, accuracy, poseId, rnd) ==
    IF server.present /\ previous.present
    THEN LET interpolatedKeypoints == interpolateKeypoints(previous.kps, server.kps, 3)
             n == 2 * Len(interpolatedKeypoints)
             keypointsWithVariation == addNaturalVariation(interpolatedKeypoints, rnd)
         IN [branch |-> "interpolate",
             previous |-> Some(keypointsWithVariation),
             result |-> Result(Some(keypointsWithVariation),
                               DisplayAccuracy(accuracy, Draw(rnd, n + 1)), FALSE),
             rnd |-> Taken(rnd, n + 1)]
    ELSE LET defaultKeypoints == DefaultKeypointsFor(poseId)
             n == 2 * Len(defaultKeypoints)
             seeded == ~previous.present
             rnd2 == IF seeded THEN Taken(rnd, n) ELSE rnd
         IN [branch |-> "default",
             previous |-> IF seeded
                          THEN Some(addNaturalVariation(defaultKeypoints, rnd))
                          ELSE previous,
             result |-> Result(Some(addNaturalVariation(defaultKeypoints, rnd2)),
                               NeutralAccuracy, FALSE),
             rnd |-> Taken(rnd2, n)]

----------------------------------------------------------------------------
(* PoseDetectionService.js: state and operations *)

NoResult == Result(Absent, 0, FALSE)
NoResponse == [kind |-> "none", keypoints |-> Absent, accuracy |-> 0]

\* How the server branch of a call ended, as processFrame tells the cases apart:
\*   skipped   : the health gate was closed (the else branch, line 151)
\*   notstring : the image check threw before a request was made (line 84)
\*   failed    : the request was made and the inner catch ran (line 139)
\*   accepted  : the request was made and the success branch ran (line 113)
Outcome(sent, attempt, resp) ==
    IF ~attempt THEN "skipped"
    ELSE IF ~sent THEN "notstring"
    ELSE IF ResponseAccepted(resp) THEN "accepted" ELSE "failed"

\* The record of a completed operation: what it was given, whether a request
\* went to the server and what came back, the branch taken, what it returned,
\* and the operation completed before it.
Completed(op, poseId, outcome, response, branch, result) ==
    [op |-> op, poseId |-> poseId, outcome |-> outcome,
     response |-> IF outcome = "accepted" THEN response ELSE NoResponse,
     branch |-> branch, result |-> result, prevOp |-> last.op]

InitService ==
    /\ lastServerKeypoints = Absent
    /\ lastKeypointsTimestamp = 0
    /\ previousFrameKeypoints = Absent
    /\ lastAccuracy = NeutralAccuracy
    /\ serverHealth = [lastSuccess |-> 0, failedAttempts |-> 0]
    /\ now = Epoch
    /\ rng \in RandomPeriod
    /\ inflight = {}
    /\ calls = 0
    /\ resets = 0
    /\ activePose \in PoseIds
    /\ last = [op |-> "none", poseId |-> "none", outcome |-> "none",
               response |-> NoResponse, branch |-> "none", result |-> NoResult,
               prevOp |-> "none"]
    /\ gatedAt = {}

\* The part of processFrame after the server branch (lines 155-198), as a step.
FallbackStep(poseId, outcome) ==
    LET f == Fallback(lastServerKeypoints, previousFrameKeypoints,
                      lastAccuracy, poseId, rng)
    IN /\ previousFrameKeypoints' = f.previous
       /\ rng' = f.rnd
       /\ last' = Completed("processFrame", poseId, outcome,
                            NoResponse, f.branch, f.result)

\* processFrame from its entry to the await of axios.post, or to its return
\* when no request is sent: the server is skipped by the health gate, or the
\* image is not a string and the inner catch counts a failure.
ProcessFrameBegin(imageData, poseId) ==
    /\ calls < MaxCalls
    /\ calls' = calls + 1
    /\ LET currentTime == now
           attempt == ShouldAttemptRemote(serverHealth, currentTime)
       IN IF attempt /\ imageData.isString
          THEN /\ inflight' = inflight \cup
                      {[id |-> calls + 1, currentTime |-> currentTime,
                        poseId |-> poseId, image |-> NormalizeImage(imageData)]}
               /\ gatedAt' = IF serverHealth.failedAttempts >= FailureThreshold
                             THEN {currentTime} ELSE gatedAt
               /\ UNCHANGED <<lastServerKeypoints, lastKeypointsTimestamp,
                              previousFrameKeypoints, lastAccuracy, serverHealth,
                              rng, last>>
          ELSE /\ serverHealth' = IF attempt THEN RecordFailure(serverHealth)
                                             ELSE serverHealth
               /\ FallbackStep(poseId, Outcome(FALSE, attempt, NoResponse))
               /\ UNCHANGED <<lastServerKeypoints, lastKeypointsTimestamp,
                              lastAccuracy, inflight, gatedAt>>
    /\ UNCHANGED <<now, resets, activePose, estVars, pure, chat>>

\* A success branch that never seeds the displayed keypoints.
SeedDisplayedNever(previous, serverKeypoints) == previous

\* if (!previousFrameKeypoints) previousFrameKeypoints = lastServerKeypoints
SeedDisplayed(previous, serverKeypoints) ==
    IF ~previous.present THEN serverKeypoints ELSE previous

\* processFrame from the end of the await of axios.post to its return.
ProcessFrameRespond(c, resp) ==
    /\ c \in inflight
    /\ inflight' = inflight \ {c}
    /\ IF ResponseAccepted(resp)
       THEN /\ lastServerKeypoints' = resp.keypoints
            /\ lastKeypointsTimestamp' = c.currentTime
            /\ lastAccuracy' = resp.accuracy
            /\ serverHealth' = RecordSuccess(serverHealth, c.currentTime)
            /\ previousFrameKeypoints' =
                   SeedDisplayed(previousFrameKeypoints, resp.keypoints)
            /\ last' = Completed("processFrame", c.poseId,
                                 Outcome(TRUE, TRUE, resp), resp,
                                 "server", Result(resp.keypoints, resp.accuracy, TRUE))
            /\ rng' = rng
       ELSE /\ serverHealth' = RecordFailure(serverHealth)
            /\ FallbackStep(c.poseId, Outcome(TRUE, TRUE, resp))
            /\ UNCHANGED <<lastServerKeypoints, lastKeypointsTimestamp, lastAccuracy>>
    /\ UNCHANGED <<now, calls, resets, activePose, gatedAt, estVars, pure, chat>>

\* A reset that clears the displayed keypoints and forgets the server cache.
resetPoseDataKeepsServerCache ==
    /\ resets < MaxResets
    /\ resets' = resets + 1
    /\ lastKeypointsTimestamp' = 0
    /\ previousFrameKeypoints' = Absent
    /\ lastAccuracy' = NeutralAccuracy
    /\ last' = Completed("resetPoseData", "none", "none", NoResponse,
                         "none", NoResult)
    /\ UNCHANGED <<lastServerKeypoints, serverHealth, now, rng, inflight, calls, gatedAt, estVars, pure, chat>>

resetPoseData ==
    /\ resets < MaxResets
    /\ resets' = resets + 1
    /\ lastServerKeypoints' = Absent
    /\ lastKeypointsTimestamp' = 0
    /\ previousFrameKeypoints' = Absent
    /\ lastAccuracy' = NeutralAccuracy
    /\ last' = Completed("resetPoseData", "none", "none", NoResponse,
                         "none", NoResult)
    /\ UNCHANGED <<serverHealth, now, rng, inflight, calls, gatedAt, estVars, pure, chat>>

\* Date.now() moves on to a later instant t.
Advance(t) ==
    /\ t > now
    /\ now' = t
    /\ UNCHANGED <<lastServerKeypoints, lastKeypointsTimestamp, previousFrameKeypoints,
                   lastAccuracy, serverHealth, rng, inflight, calls, resets, last,
                   activePose, gatedAt, estVars, pure, chat>>

----------------------------------------------------------------------------
(* One caller that awaits each processFrame before its next call *)

BeginSerial ==
    /\ inflight = {}
    /\ \E imageData \in Images : ProcessFrameBegin(imageData, activePose)

Respond ==
    \E c \in inflight, resp \in Responses : ProcessFrameRespond(c, resp)

\* The caller changes the pose (or restarts the same one) and resets the caches.
ChangePose ==
    /\ inflight = {}
    /\ \E p \in PoseIds :
          /\ resetPoseData
          /\ activePose' = p

\* The instants looked at: exactly one retry interval after Epoch, and the horizon
\* just beyond it.
Tick == \E t \in {Epoch + RetryInterval, Epoch + Horizon} : Advance(t)

----------------------------------------------------------------------------
(* YogaPoseEstimator.js: the component *)

\* What the pose-estimation request of the component ends with: a successful
\* payload (accuracy in percent, keypoints), an unsuccessful one, or an error
\* (the request has no timeout of its own).
PoseReplies ==
    { [kind |-> "success", accuracy |-> a, keypoints |-> k] :
          a \in {35, 82}, k \in {"K1", "K2"} }
    \cup { [kind |-> k, accuracy |-> 0, keypoints |-> "none"] :
          k \in {"unsuccessful", "error"} }

\* What the posture-feedback request ends with.
FeedbackReplies == {"success", "unsuccessful", "error"}

\* The handles startAnalysis creates: the 500 ms interval, the 30 s interval
\* and the 5 s one-shot timeout.
FrameTimer == [id |-> 1, kind |-> "frame"]
FeedbackTimer == [id |-> 2, kind |-> "feedback"]
InitialTimer == [id |-> 3, kind |-> "initial"]
NullRef == 0

\* The component after its first render, camera permission granted.
InitEstimator ==
    /\ est = [mounted |-> TRUE,
              stage |-> "preparation",
              isRecording |-> FALSE,
              isAnalyzing |-> FALSE,
              tickIsAnalyzing |-> FALSE,
              cameraRef |-> TRUE,
              frameProcessorRef |-> NullRef,
              feedbackProcessorRef |-> NullRef,
              poseAccuracy |-> 0,
              keypoints |-> "none",
              feedback |-> "",
              feedbackLoading |-> FALSE]
    /\ timers = {}
    /\ reqs = {}
    /\ shown = [ended |-> FALSE, firedAfterStop |-> FALSE, started |-> 0,
                saved |-> [done |-> FALSE, accuracy |-> 0, feedback |-> ""]]

\* A state setter: React drops updates of an unmounted component.
SetState(e, field, value) ==
    IF e.mounted THEN [e EXCEPT ![field] = value] ELSE e

\* startAnalysis: the button of the preparation stage.  The interval keeps
\* the processFrame of this render, and with it this render's isAnalyzing.
startAnalysis ==
    /\ est.mounted /\ est.stage = "preparation"
    /\ est' = [est EXCEPT !.isRecording = TRUE,
                          !.stage = "practice",
                          !.poseAccuracy = 0,
                          !.feedback = "starting",
                          !.frameProcessorRef = FrameTimer.id,
                          !.feedbackProcessorRef = FeedbackTimer.id,
                          !.tickIsAnalyzing = est.isAnalyzing]
    /\ timers' = timers \cup {FrameTimer, FeedbackTimer, InitialTimer}
    /\ UNCHANGED <<reqs, shown, svcVars, pure, chat>>

\* clearInterval(ref.current); ref.current = null, for a ref that is set
ClearedBy(ref) == {t \in timers : ref # NullRef /\ t.id = ref}

\* stopAnalysis: the component and the timers it leaves behind
StoppedEst(e) ==
    [SetState(e, "isRecording", FALSE) EXCEPT !.frameProcessorRef = NullRef,
                                              !.feedbackProcessorRef = NullRef]
\* A stopAnalysis that clears the frame interval only
StoppedTimersFrameOnly ==
    timers \ ClearedBy(est.frameProcessorRef)
StoppedTimers ==
    timers \ (ClearedBy(est.frameProcessorRef) \cup ClearedBy(est.feedbackProcessorRef))

\* One tick of setInterval(processFrame, 500), up to the await of
\* takePictureAsync.  The busy test reads the isAnalyzing the interval's
\* closure was created with.
FrameTick ==
    /\ FrameTimer \in timers
    /\ shown.started < MaxRequests
    /\ IF ~est.cameraRef \/ est.tickIsAnalyzing
       THEN /\ shown' = [shown EXCEPT !.firedAfterStop = @ \/ shown.ended]
            /\ UNCHANGED <<est, reqs>>
       ELSE /\ est' = SetState(est, "isAnalyzing", TRUE)
            /\ reqs' = reqs \cup {[id |-> shown.started + 1, kind |-> "capture",
                                    isFinal |-> FALSE]}
            /\ shown' = [shown EXCEPT !.started = @ + 1,
                                      !.firedAfterStop = @ \/ shown.ended]
    /\ UNCHANGED <<timers, svcVars, pure, chat>>

\* takePictureAsync settles: the photo goes out with axios.post, or the
\* capture throws and processFrame ends through catch and finally.
FrameCaptured(r, ok) ==
    /\ r \in reqs /\ r.kind = "capture"
    /\ IF ok
       THEN /\ reqs' = (reqs \ {r}) \cup {[r EXCEPT !.kind = "pose"]}
            /\ est' = est
       ELSE /\ reqs' = reqs \ {r}
            /\ est' = SetState(est, "isAnalyzing", FALSE)
    /\ UNCHANGED <<timers, shown, svcVars, pure, chat>>

\* axios.post of the pose estimation settles: the rest of processFrame.
PoseReplied(r, reply) ==
    /\ r \in reqs /\ r.kind = "pose"
    /\ reqs' = reqs \ {r}
    /\ LET applied == IF reply.kind = "success"
                       THEN SetState(SetState(est, "poseAccuracy", reply.accuracy),
                                     "keypoints", reply.keypoints)
                       ELSE est
       IN est' = SetState(applied, "isAnalyzing", FALSE)
    /\ UNCHANGED <<timers, shown, svcVars, pure, chat>>

\* setStage('completed'): the completion screen has no camera view, so the
\* camera ref is released when the stage is rendered.
Completed_Stage(e) ==
    IF e.mounted THEN [e EXCEPT !.stage = "completed", !.cameraRef = FALSE] ELSE e

\* getLLMFeedback up to the await of takePictureAsync, from component state e:
\* the component and the requests it leaves, and whether it returned at once
\* (no camera).
GetLLMFeedbackBegin(e, isFinal) ==
    IF ~e.cameraRef
    THEN [est |-> e, reqs |-> reqs, started |-> shown.started, returned |-> TRUE]
    ELSE [est |-> SetState(e, "feedbackLoading", TRUE),
          reqs |-> reqs \cup {[id |-> shown.started + 1, kind |-> "feedbackCapture",
                                isFinal |-> isFinal]},
          started |-> shown.started + 1,
          returned |-> FALSE]

\* One tick of setInterval(getLLMFeedback, 30000)
FeedbackTick ==
    /\ FeedbackTimer \in timers
    /\ shown.started < MaxRequests
    /\ LET b == GetLLMFeedbackBegin(est, FALSE)
       IN /\ est' = b.est
          /\ reqs' = b.reqs
          /\ shown' = [shown EXCEPT !.started = b.started,
                                    !.firedAfterStop = @ \/ shown.ended]
    /\ UNCHANGED <<timers, svcVars, pure, chat>>

\* setTimeout(getLLMFeedback, 5000) fires, once
InitialFeedback ==
    /\ InitialTimer \in timers
    /\ shown.started < MaxRequests
    /\ timers' = timers \ {InitialTimer}
    /\ LET b == GetLLMFeedbackBegin(est, FALSE)
       IN /\ est' = b.est
          /\ reqs' = b.reqs
          /\ shown' = [shown EXCEPT !.started = b.started]
    /\ UNCHANGED <<svcVars, pure, chat>>

\* The end of a getLLMFeedback call, from component state e: `finally`, and
\* for the final call the rest of completeSession.
FeedbackEnd(e, isFinal) ==
    LET done == SetState(e, "feedbackLoading", FALSE)
    IN IF isFinal THEN Completed_Stage(done) ELSE done

\* takePictureAsync of getLLMFeedback settles
FeedbackCaptured(r, ok) ==
    /\ r \in reqs /\ r.kind = "feedbackCapture"
    /\ IF ok
       THEN /\ reqs' = (reqs \ {r}) \cup {[r EXCEPT !.kind = "feedback"]}
            /\ est' = est
       ELSE /\ reqs' = reqs \ {r}
            /\ est' = FeedbackEnd(SetState(est, "feedback", "unable"), r.isFinal)
    /\ UNCHANGED <<timers, shown, svcVars, pure, chat>>

\* axios.post of the posture feedback settles: the rest of getLLMFeedback
FeedbackReplied(r, reply) ==
    /\ r \in reqs /\ r.kind = "feedback"
    /\ reqs' = reqs \ {r}
    /\ LET text == IF r.isFinal THEN "final" ELSE "periodic"
           applied == CASE reply = "success" -> SetState(est, "feedback", text)
                        [] reply = "error" -> SetState(est, "feedback", "unable")
                        [] OTHER -> est
       IN est' = FeedbackEnd(applied, r.isFinal)
    /\ UNCHANGED <<timers, shown, svcVars, pure, chat>>

\* completeSession: the button of the practice stage, up to the await of the
\* final feedback
completeSession ==
    /\ est.mounted /\ est.stage = "practice"
    /\ shown.started < MaxRequests
    /\ timers' = StoppedTimers
    /\ LET b == GetLLMFeedbackBegin(StoppedEst(est), TRUE)
       IN /\ est' = IF b.returned THEN Completed_Stage(b.est) ELSE b.est
          /\ reqs' = b.reqs
          /\ shown' = [shown EXCEPT !.started = b.started, !.ended = TRUE]
    /\ UNCHANGED <<svcVars, pure, chat>>

\* The component unmounts (onClose): the effect cleanup runs stopAnalysis.
Unmount ==
    /\ est.mounted
    /\ timers' = StoppedTimers
    /\ est' = [StoppedEst(est) EXCEPT !.mounted = FALSE, !.cameraRef = FALSE]
    /\ shown' = [shown EXCEPT !.ended = TRUE]
    /\ UNCHANGED <<reqs, svcVars, pure, chat>>

\* saveSession: the button of the completion stage
saveSession ==
    /\ est.mounted /\ est.stage = "completed"
    /\ ~shown.saved.done
    /\ shown' = [shown EXCEPT !.saved = [done |-> TRUE,
                                         accuracy |-> est.poseAccuracy,
                                         feedback |-> est.feedback]]
    /\ UNCHANGED <<est, timers, reqs, svcVars, pure, chat>>

FrameCapture == \E r \in reqs, ok \in BOOLEAN : FrameCaptured(r, ok)
PoseReply == \E r \in reqs, reply \in PoseReplies : PoseReplied(r, reply)
FeedbackCapture == \E r \in reqs, ok \in BOOLEAN : FeedbackCaptured(r, ok)
FeedbackReply == \E r \in reqs, reply \in FeedbackReplies : FeedbackReplied(r, reply)

----------------------------------------------------------------------------
(* The chat history: getChatHistory, addMessageToHistory and
   updateMessageInHistory over the AsyncStorage key 'chat_history' *)

\* The text a message is added with and the text an update gives it
LoadingText == "Thinking..."
ResponseText == "response"

\* No chat_history item yet, no call running.  stored is the parsed value of
\* the item; ops are the calls suspended at an await, each with the history
\* it read; added and updated are the ids whose call resolved.
InitChat ==
    chat = [stored |-> <<>>, ops |-> {}, next |-> 1, added |-> {}, updated |-> {}]

\* history.push(message)
PushedHistory(history, message) == Append(history, message)

\* history.map(msg => msg.id === messageId ? { ...msg, text: newText } : msg)
UpdatedHistory(history, messageId, newText) ==
    [i \in DOMAIN history |->
        IF history[i].id = messageId
        THEN [history[i] EXCEPT !.text = newText]
        ELSE history[i]]

\* addMessageToHistory(message) up to the await of getChatHistory
addMessageToHistory ==
    /\ chat.next <= MaxMessages
    /\ chat' = [chat EXCEPT
                   !.ops = @ \cup {[kind |-> "add", id |-> chat.next,
                                    pc |-> "getItem", history |-> <<>>]},
                   !.next = @ + 1]
    /\ UNCHANGED <<svcVars, estVars, pure>>

\* updateMessageInHistory(messageId, newText) up to the await of
\* getChatHistory.  getResponse updates a message after its add resolved.
updateMessageInHistory ==
    \E messageId \in chat.added \ chat.updated :
        /\ \A o \in chat.ops : ~(o.kind = "update" /\ o.id = messageId)
        /\ chat' = [chat EXCEPT
                       !.ops = @ \cup {[kind |-> "update", id |-> messageId,
                                        pc |-> "getItem", history |-> <<>>]}]
        /\ UNCHANGED <<svcVars, estVars, pure>>

\* AsyncStorage.getItem resolves for a suspended call: getChatHistory
\* returns the parsed item, and the call goes on to its setItem.
getChatHistory ==
    \E o \in chat.ops :
        /\ o.pc = "getItem"
        /\ chat' = [chat EXCEPT
                       !.ops = (@ \ {o}) \cup
                               {[o EXCEPT !.pc = "setItem", !.history = chat.stored]}]
        /\ UNCHANGED <<svcVars, estVars, pure>>

\* What a call suspended at setItem writes
ItemWritten(o) ==
    IF o.kind = "add"
    THEN PushedHistory(o.history, [id |-> o.id, text |-> LoadingText])
    ELSE UpdatedHistory(o.history, o.id, ResponseText)

\* AsyncStorage.setItem settles for a suspended call.  Resolved: the item is
\* replaced and the call returns.  Rejected: the item is left alone and the
\* call ends through its catch.
setItem ==
    \E o \in chat.ops, resolved \in BOOLEAN :
        /\ o.pc = "setItem"
        /\ chat' = IF resolved
                   THEN [chat EXCEPT
                           !.ops = @ \ {o},
                           !.stored = ItemWritten(o),
                           !.added = IF o.kind = "add" THEN @ \cup {o.id} ELSE @,
                           !.updated = IF o.kind = "update" THEN @ \cup {o.id} ELSE @]
                   ELSE [chat EXCEPT !.ops = @ \ {o}]
        /\ UNCHANGED <<svcVars, estVars, pure>>

NextChat == addMessageToHistory \/ updateMessageInHistory \/ getChatHistory \/ setItem

----------------------------------------------------------------------------
(* Specifications *)

\* No helper has been applied
NoApplication == [op |-> "none"]
InitPure == pure = NoApplication

Init == InitService /\ InitEstimator /\ InitPure /\ InitChat

\* The frame pipeline of the service under one sequential caller
Next == BeginSerial \/ Respond \/ ChangePose \/ Tick

Spec == Init /\ [][Next]_vars

\* The health gate over time: one caller that sends well-formed frames to a
\* server that either times out or answers in full, under the scheduling the
\* runtime gives: the clock moves on, the caller's timer keeps calling while
\* it may, and every request settles (axios is given a timeout of 5000 ms).
ProbeImage == [isString |-> TRUE, prefixed |-> FALSE]
ProbeResponses ==
    {r \in Responses : \/ r.kind = "timeout"
                       \/ r.kind = "ok" /\ r.accuracy = AccuracyMax}

BeginProbe ==
    /\ inflight = {}
    /\ ProcessFrameBegin(ProbeImage, activePose)

RespondProbe ==
    \E c \in inflight, resp \in ProbeResponses : ProcessFrameRespond(c, resp)

NextProbe == BeginProbe \/ RespondProbe \/ Tick

SpecProbe ==
    /\ Init /\ [][NextProbe]_vars
    /\ WF_vars(Tick) /\ WF_vars(BeginProbe) /\ WF_vars(RespondProbe)

\* Callers that do not wait: processFrame is async and the module has no
\* lock, so a call may begin while another is suspended at its request, and
\* resetPoseData may run in between.  At most MaxInflight requests are out.
BeginOverlap ==
    /\ Cardinality(inflight) < MaxInflight
    /\ ProcessFrameBegin(ProbeImage, activePose)

RespondOverlap ==
    \E c \in inflight, resp \in ProbeResponses : ProcessFrameRespond(c, resp)

ChangePoseOverlap ==
    \E p \in PoseIds :
        /\ resetPoseData
        /\ activePose' = p

NextOverlap == BeginOverlap \/ RespondOverlap \/ ChangePoseOverlap \/ Tick

SpecOverlap == Init /\ [][NextOverlap]_vars

\* The chat history on its own, calls overlapping freely
SpecChat == Init /\ [][NextChat]_vars

\* The helpers on their own: interpolateKeypoints and addNaturalVariation
\* applied once to arguments of the caller's choice.

\* 1.0 in the rounded arithmetic, and the coordinates and scores tried:
\* 0, 3/64, 3/8, 7/8 and 1, all values of the format.
FloatOne == 2^(FloatBits - 2)
FloatInputs == {0, (FloatOne * 3) \div 64, (FloatOne * 3) \div 8,
                (FloatOne * 7) \div 8, FloatOne}

\* Keypoint sets for interpolateKeypoints: one joint at every combination of
\* the values, and sets that differ in joints and order, one with a joint
\* listed twice.
InterpolationSets ==
    { << Kp("nose", x, y, sc) >> :
          x \in FloatInputs, y \in {0, FloatOne}, sc \in {(FloatOne * 3) \div 8, FloatOne} }
    \cup { << Kp("left_hip", (FloatOne * 7) \div 8, (FloatOne * 3) \div 64, FloatOne),
              Kp("nose", (FloatOne * 3) \div 64, (FloatOne * 3) \div 8, (FloatOne * 3) \div 8) >>,
           << Kp("nose", 0, 0, FloatOne),
              Kp("right_knee", (FloatOne * 3) \div 8, (FloatOne * 3) \div 8, 0),
              Kp("nose", FloatOne, (FloatOne * 7) \div 8, (FloatOne * 3) \div 64) >> }

\* factor: 0.25, 0.5, 0.75 and 1.0
Factors == 1..FactorOne

\* Keypoint sets for addNaturalVariation, coordinates within [0, 1]: the
\* canned skeletons, and joints on and next to the edges of the frame.
VariationSets ==
    { DEFAULT_POSE_KEYPOINTS[p] : p \in DOMAIN DEFAULT_POSE_KEYPOINTS }
    \cup { << Kp("left_shoulder", 0, CoordOne, 500),
              Kp("nose", CoordOne, 0, 1000),
              Kp("left_hip", 50, CoordOne - 50, 0),
              Kp("right_ankle", CoordOne - 100, 100, 250),
              Kp("right_hip", 100, CoordOne - 99, 1000) >>,
           << Kp("left_wrist", 249, CoordOne - 249, 900) >>,
           << >> }

ApplyInterpolateKeypoints ==
    /\ pure = NoApplication
    /\ \E previousKeypoints \in InterpolationSets, targetKeypoints \in InterpolationSets,
          factor \in Factors :
          pure' = [op |-> "interpolateKeypoints",
                   previousKeypoints |-> previousKeypoints,
                   targetKeypoints |-> targetKeypoints,
                   factor |-> factor,
                   value |-> interpolateKeypointsRounded(previousKeypoints,
                                                         targetKeypoints, factor)]
    /\ UNCHANGED <<svcVars, estVars, chat>>

ApplyAddNaturalVariation ==
    /\ pure = NoApplication
    /\ \E keypoints \in VariationSets, rnd \in RandomPeriod :
          pure' = [op |-> "addNaturalVariation",
                   keypoints |-> keypoints,
                   rnd |-> rnd,
                   value |-> addNaturalVariation(keypoints, rnd)]
    /\ UNCHANGED <<svcVars, estVars, chat>>

\* PoseVisualizer.js: what the component draws for a keypoint set.  A
\* keypoint here is its part and its score, in thousandths, which upstream
\* data may lack; every keypoint has a position.
POSE_CONNECTIONS ==
    << <<"nose", "left_eye">>, <<"nose", "right_eye">>,
       <<"left_eye", "left_ear">>, <<"right_eye", "right_ear">>,
       <<"left_shoulder", "right_shoulder">>,
       <<"left_shoulder", "left_elbow">>, <<"right_shoulder", "right_elbow">>,
       <<"left_elbow", "left_wrist">>, <<"right_elbow", "right_wrist">>,
       <<"left_shoulder", "left_hip">>, <<"right_shoulder", "right_hip">>,
       <<"left_hip", "right_hip">>, <<"left_hip", "left_knee">>,
       <<"right_hip", "right_knee">>, <<"left_knee", "left_ankle">>,
       <<"right_knee", "right_ankle">> >>

\* JOINT_IMPORTANCE, in tenths
JOINT_IMPORTANCE ==
    [part \in {"nose", "left_eye", "right_eye", "left_ear", "right_ear",
               "left_shoulder", "right_shoulder", "left_elbow", "right_elbow",
               "left_wrist", "right_wrist", "left_hip", "right_hip",
               "left_knee", "right_knee", "left_ankle", "right_ankle"} |->
        CASE part \in {"left_shoulder", "right_shoulder", "left_hip", "right_hip"} -> 10
          [] part \in {"left_knee", "right_knee"} -> 9
          [] part \in {"left_elbow", "right_elbow", "left_ankle", "right_ankle"} -> 8
          [] part \in {"nose", "left_wrist", "right_wrist"} -> 7
          [] part \in {"left_eye", "right_eye"} -> 5
          [] OTHER -> 3]

NoScore == [present |-> FALSE, value |-> 0]
Score(v) == [present |-> TRUE, value |-> v]

\* `kp.score || 0.5`: undefined and 0 are both falsy
Confidence(score) ==
    IF score.present /\ score.value # 0 THEN score.value ELSE 500

\* keypointMap[part]: reduce overwrites, so the last keypoint of a part wins
KeypointMap(keypoints, part) ==
    LET idx == {i \in DOMAIN keypoints : keypoints[i].part = part}
    IN IF idx = {} THEN Absent
       ELSE Some(<<keypoints[CHOOSE i \in idx : \A j \in idx : j <= i]>>)

\* The joints (indexes of keypoints) and the connections (indexes of
\* POSE_CONNECTIONS) PoseVisualizer draws; nothing for fewer than 5 keypoints.
PoseVisualizer(keypoints, renderMode) ==
    LET showAll == renderMode = "high-quality"
        filteredKeypoints ==
            {i \in DOMAIN keypoints :
                showAll \/ JOINT_IMPORTANCE[keypoints[i].part] > 7}
        connectionsToShow ==
            {c \in DOMAIN POSE_CONNECTIONS :
                showAll \/ (/\ JOINT_IMPORTANCE[POSE_CONNECTIONS[c][1]] > 7
                            /\ JOINT_IMPORTANCE[POSE_CONNECTIONS[c][2]] > 7)}
    IN IF Len(keypoints) < 5
       THEN [rendered |-> FALSE, joints |-> {}, lines |-> {}]
       ELSE [rendered |-> TRUE,
             joints |-> {i \in filteredKeypoints :
                            ~(Confidence(keypoints[i].score) < 200)},
             lines |-> {c \in connectionsToShow :
                          LET p1 == KeypointMap(keypoints, POSE_CONNECTIONS[c][1])
                              p2 == KeypointMap(keypoints, POSE_CONNECTIONS[c][2])
                          IN /\ p1.present /\ p2.present
                             /\ ~(Min(Confidence(p1.kps[1].score),
                                      Confidence(p2.kps[1].score)) < 200)}]

\* Scores tried: missing, 0, below, just below and at the threshold 0.2, above
VisualizerScores == {NoScore, Score(0), Score(100), Score(199), Score(200), Score(900)}

\* Keypoint sets shown: five joints of the upper body, three of them with
\* every score tried, and a set too short to be drawn.
VisualizerSets ==
    { << [part |-> "nose", score |-> a],
         [part |-> "left_eye", score |-> b],
         [part |-> "left_shoulder", score |-> c],
         [part |-> "right_shoulder", score |-> Score(900)],
         [part |-> "left_hip", score |-> Score(700)] >> :
          a \in VisualizerScores, b \in VisualizerScores, c \in VisualizerScores }
    \cup { << [part |-> "nose", score |-> Score(900)],
              [part |-> "left_eye", score |-> Score(900)] >> }

ApplyPoseVisualizer ==
    /\ pure = NoApplication
    /\ \E keypoints \in VisualizerSets, renderMode \in {"high-quality", "low-quality"} :
          pure' = [op |-> "PoseVisualizer",
                   keypoints |-> keypoints,
                   renderMode |-> renderMode,
                   value |-> PoseVisualizer(keypoints, renderMode)]
    /\ UNCHANGED <<svcVars, estVars, chat>>

NextHelpers ==
    ApplyInterpolateKeypoints \/ ApplyAddNaturalVariation \/ ApplyPoseVisualizer

SpecHelpers == Init /\ [][NextHelpers]_vars

\* The component, from its mount to its end
NextEstimator ==
    \/ startAnalysis
    \/ FrameTick
    \/ FrameCapture
    \/ PoseReply
    \/ FeedbackTick
    \/ InitialFeedback
    \/ FeedbackCapture
    \/ FeedbackReply
    \/ completeSession
    \/ Unmount
    \/ saveSession

SpecEstimator == Init /\ [][NextEstimator]_vars


----------------------------------------------------------------------------
(* Properties of the frame pipeline, one caller at a time (Spec) *)

ProcessFrameReturned == last.op = "processFrame"

\* The server branch of the last call did not deliver: the request failed,
\* was never made, or was skipped by the health gate.
RemoteFailedOrSkipped ==
    /\ ProcessFrameReturned
    /\ last.outcome \in {"failed", "notstring", "skipped"}

Abs(v) == IF v < 0 THEN -v ELSE v

\* The jitter bound of a joint: 0.001 for the torso anchors, 0.0025 otherwise.
JitterBound(part) ==
    IF part \in {"left_shoulder", "right_shoulder", "left_hip", "right_hip"}
    THEN CoordOne \div 1000 ELSE CoordOne \div 400

\* shownKps is canned, every joint moved by at most its jitter bound.
WithinJitterOf(shownKps, canned) ==
    /\ Len(shownKps) = Len(canned)
    /\ \A i \in DOMAIN canned :
          /\ shownKps[i].part = canned[i].part
          /\ shownKps[i].score = canned[i].score
          /\ Abs(shownKps[i].x - canned[i].x) <= JitterBound(canned[i].part)
          /\ Abs(shownKps[i].y - canned[i].y) <= JitterBound(canned[i].part)

\* C1: whatever the remote call ends with and whatever is cached, the result
\* processFrame returns carries a present keypoint set.  (The model has no
\* rejecting path; it is the keypoint set that can be missing.)
C1_ResultAlwaysRenderable ==
    ProcessFrameReturned => last.result.keypoints.present

\* C2: a call whose request succeeds with keypoints K and accuracy a returns
\* exactly {keypoints: K, accuracy: a, fromServer: true}, and the failure
\* count is 0 afterwards.
C2_ServerResultReturnedVerbatim ==
    (ProcessFrameReturned /\ last.outcome = "accepted"
        /\ last.response.keypoints.present)
    => /\ last.result = [keypoints |-> last.response.keypoints,
                          accuracy |-> last.response.accuracy,
                          fromServer |-> TRUE]
       /\ serverHealth.failedAttempts = 0

\* A success that followed failures: the count is back at 0.
C2_Witness ==
    /\ ProcessFrameReturned /\ last.outcome = "accepted"
    /\ last.response.keypoints.present
    /\ last.result.fromServer
    /\ calls > 1

\* C3: a call goes for the server exactly when failedAttempts < 3 or more than
\* 5000 ms have passed since lastSuccess; otherwise it is skipped and no
\* request leaves.
C3_GateDecidesAttempt ==
    [][calls' = calls + 1 =>
        LET open == \/ serverHealth.failedAttempts < 3
                    \/ now - serverHealth.lastSuccess > 5000
        IN IF open
           THEN inflight' # inflight \/ last'.outcome = "notstring"
           ELSE inflight' = inflight /\ last'.outcome = "skipped"]_vars

\* Three failures after a success, within the retry interval: the call is skipped.
C3_Witness ==
    /\ ProcessFrameReturned /\ last.outcome = "skipped"
    /\ serverHealth.failedAttempts >= 3
    /\ now - serverHealth.lastSuccess <= 5000

\* C4: a request that ends in a timeout, a network error or an unsuccessful or
\* invalid response (one without keypoints included) adds exactly one to
\* failedAttempts; a successful one sets it to 0 and lastSuccess to the time
\* the call read.
C4_EveryFailedCallCounts ==
    [][\A c \in inflight : c \notin inflight' =>
          IF last'.outcome = "accepted" /\ last'.response.keypoints.present
          THEN serverHealth' = [lastSuccess |-> c.currentTime, failedAttempts |-> 0]
          ELSE serverHealth' = [serverHealth EXCEPT !.failedAttempts = @ + 1]]_vars

\* C5: with a server result cached, a call whose request failed or was skipped
\* returns fromServer = false and an accuracy within 1.5 of the last
\* confirmed accuracy and within [0, 100]; the confirmed accuracy itself
\* stays a value the server gave, so the perturbation does not accumulate.
C5_InterpolatedAccuracyNearConfirmed ==
    /\ (RemoteFailedOrSkipped /\ lastServerKeypoints.present)
        => /\ last.result.fromServer = FALSE
           /\ Abs(last.result.accuracy - lastAccuracy) <= 150
           /\ last.result.accuracy >= 0
           /\ last.result.accuracy <= 10000
    /\ lastServerKeypoints.present => lastAccuracy \in ServerAccuracies

\* A skipped call served from the cache, with the perturbation cut at 100.
C5_Witness ==
    /\ RemoteFailedOrSkipped /\ last.outcome = "skipped"
    /\ lastServerKeypoints.present
    /\ last.branch = "interpolate"
    /\ lastAccuracy = 10000 /\ last.result.accuracy = 10000

\* C6: without a cached server result, a call whose request failed or was
\* skipped returns fromServer = false, accuracy 50 and the canned skeleton of
\* its pose, each joint within its jitter bound; a pose without a canned
\* skeleton gets that of '1-1'.
C6_DefaultSkeletonOfPose ==
    (RemoteFailedOrSkipped /\ ~lastServerKeypoints.present)
    => /\ last.result.fromServer = FALSE
       /\ last.result.accuracy = 5000
       /\ last.result.keypoints.present
       /\ WithinJitterOf(last.result.keypoints.kps,
                          IF last.poseId = "1-2" THEN DEFAULT_POSE_KEYPOINTS["1-2"]
                          ELSE DEFAULT_POSE_KEYPOINTS["1-1"])

\* The canned skeleton of "1-2" shown after a failure.
C6_Witness ==
    /\ RemoteFailedOrSkipped /\ ~lastServerKeypoints.present
    /\ last.poseId = "1-2"
    /\ last.outcome = "failed"
    /\ last.branch = "default"

\* C7: after resetPoseData the two keypoint caches are empty and lastAccuracy
\* is 50, and the first call after it whose request fails or is skipped
\* takes the default branch with accuracy 50.
C7_ResetForgetsCache ==
    /\ last.op = "resetPoseData"
        => /\ ~lastServerKeypoints.present
           /\ ~previousFrameKeypoints.present
           /\ lastAccuracy = 5000
    /\ (RemoteFailedOrSkipped /\ last.prevOp = "resetPoseData")
        => /\ last.branch = "default"
           /\ last.result.accuracy = 5000

\* A failing call right after a reset that followed a success.
C7_Witness ==
    /\ RemoteFailedOrSkipped /\ last.prevOp = "resetPoseData"
    /\ serverHealth.lastSuccess > 0
    /\ last.branch = "default"

----------------------------------------------------------------------------
(* Properties of the component's session *)

\* The pose-estimation calls of processFrame that have not resolved
OutstandingPose == {r \in reqs : r.kind \in {"capture", "pose"}}

\* C8: at most one pose-estimation request is outstanding at any time: a
\* frame tick that fires while the previous tick's request has not resolved
\* starts nothing.
C8_AtMostOneOutstanding == Cardinality(OutstandingPose) <= 1

\* C9: once stopAnalysis has run (completeSession or unmount), neither the
\* 500 ms frame interval nor the 30 s feedback interval exists any more, and
\* no tick of either has fired since.
C9_EndStopsBothIntervals ==
    shown.ended =>
        /\ FrameTimer \notin timers
        /\ FeedbackTimer \notin timers
        /\ ~shown.firedAfterStop

\* A session ended by completeSession while a frame tick's request, started
\* by the running interval, is still in flight.
C9_Witness ==
    /\ shown.ended
    /\ est.mounted /\ est.stage = "practice"
    /\ OutstandingPose # {}

\* C10: after the session has ended, no step changes the displayed accuracy
\* or keypoints: the result of a request still in flight is discarded.
C10_LateResultDiscarded ==
    [][shown.ended => /\ est'.poseAccuracy = est.poseAccuracy
                      /\ est'.keypoints = est.keypoints]_vars

----------------------------------------------------------------------------
(* Properties of the health gate and of the caches (Spec) *)

\* C11: requests that leave while failedAttempts >= 3 are at least the retry
\* interval (5000 ms) apart, also when no call has ever succeeded.
C11_GatedAttemptsSpaced ==
    [][(inflight' # inflight /\ calls' = calls + 1
            /\ serverHealth.failedAttempts >= FailureThreshold)
        => \A t \in gatedAt : now - t >= RetryInterval]_vars

\* The health gate as the next call would find it
GateOpen == ShouldAttemptRemote(serverHealth, now)

\* C12: the server is never skipped forever.  Whenever the gate is shut and
\* the clock can still pass lastSuccess + 5000 ms, the gate is open again
\* later on, and every call that begins with the gate open goes for the
\* server.
C12_NeverSkippedForever ==
    /\ (~GateOpen /\ Epoch + Horizon - serverHealth.lastSuccess > RetryInterval)
          ~> GateOpen
    /\ [][(calls' = calls + 1 /\ GateOpen)
            => (inflight' # inflight \/ last'.outcome = "notstring")]_vars

\* The gate skipped the last call, three failures after a success, and is
\* open again now that the retry interval has passed.
C12_Witness ==
    /\ last.op = "processFrame" /\ last.outcome = "skipped"
    /\ serverHealth.failedAttempts >= FailureThreshold
    /\ serverHealth.lastSuccess >= Epoch
    /\ GateOpen

\* A payload without a truthy success, without data, or without keypoints
LacksSuccessOrKeypoints(resp) ==
    resp.kind \in {"unsuccessful", "nodata", "nokeypoints"}

\* C13: a call whose request is answered by a payload that lacks the success
\* indicator or the keypoints counts one failure, leaves the cached server
\* keypoints and accuracy as they were, and returns fromServer = false.
C13_InvalidResponseIsFailure ==
    [][\A c \in inflight, resp \in Responses :
          (LacksSuccessOrKeypoints(resp) /\ ProcessFrameRespond(c, resp))
          => /\ serverHealth'.failedAttempts = serverHealth.failedAttempts + 1
             /\ lastServerKeypoints' = lastServerKeypoints
             /\ lastAccuracy' = lastAccuracy
             /\ ~last'.result.fromServer]_vars

\* C14: resetPoseData, called when the pose changes, leaves the health state
\* reset: failedAttempts is 0 when it returns, so the gate is open for the
\* first call of the new pose.
C14_ResetClearsHealth ==
    last.op = "resetPoseData"
    => /\ serverHealth.failedAttempts = 0
       /\ GateOpen

InUnitRange(v) == 0 <= v /\ v <= CoordOne

\* C15: every keypoint of every keypoint set processFrame returns has x and y
\* within [0, 1], whatever coordinates the server supplied.
C15_ReturnedKeypointsInUnitSquare ==
    (ProcessFrameReturned /\ last.result.keypoints.present)
    => \A i \in DOMAIN last.result.keypoints.kps :
          /\ InUnitRange(last.result.keypoints.kps[i].x)
          /\ InUnitRange(last.result.keypoints.kps[i].y)

----------------------------------------------------------------------------
(* Properties of the helpers (SpecHelpers) *)

Between(v, a, b) == Min(a, b) <= v /\ v <= Max(a, b)

\* The joints of the target that the previous set has as well, with the
\* previous keypoint interpolateKeypoints pairs each with
PairedJoints ==
    {i \in DOMAIN pure.targetKeypoints :
        \E j \in DOMAIN pure.previousKeypoints :
            pure.previousKeypoints[j].part = pure.targetKeypoints[i].part}
PairedWith(i) ==
    pure.previousKeypoints[
        CHOOSE j \in DOMAIN pure.previousKeypoints :
            /\ pure.previousKeypoints[j].part = pure.targetKeypoints[i].part
            /\ \A k \in DOMAIN pure.previousKeypoints :
                  pure.previousKeypoints[k].part = pure.targetKeypoints[i].part => k <= j]

\* No joint is listed twice
DistinctParts(keypoints) ==
    \A i, j \in DOMAIN keypoints : keypoints[i].part = keypoints[j].part => i = j

\* C16: for every previous set A, target B and factor in (0, 1], each x, y
\* and score interpolateKeypoints gives for a joint of both sets lies between
\* the values of A and B, ends included; and interpolating A towards A gives A.
C16_InterpolationWithinEnds ==
    pure.op = "interpolateKeypoints"
    => /\ \A i \in PairedJoints :
             /\ Between(pure.value[i].x, PairedWith(i).x, pure.targetKeypoints[i].x)
             /\ Between(pure.value[i].y, PairedWith(i).y, pure.targetKeypoints[i].y)
             /\ Between(pure.value[i].score, PairedWith(i).score,
                        pure.targetKeypoints[i].score)
       /\ (pure.previousKeypoints = pure.targetKeypoints
             /\ DistinctParts(pure.targetKeypoints))
           => pure.value = pure.targetKeypoints

\* C17: interpolateKeypoints(A, B, 1.0) gives, for every joint of both sets,
\* exactly B's position and score.
C17_FullFactorReachesTarget ==
    (pure.op = "interpolateKeypoints" /\ pure.factor = FactorOne)
    => \A i \in PairedJoints : pure.value[i] = pure.targetKeypoints[i]

\* C18: for a keypoint set with coordinates in [0, 1], addNaturalVariation
\* gives one keypoint per keypoint, in the same order, with part and score
\* unchanged, x and y moved by at most 0.001 (shoulders and hips) or 0.0025
\* (other joints), and within [0, 1].
C18_VariationBoundedAndClamped ==
    pure.op = "addNaturalVariation"
    => /\ WithinJitterOf(pure.value, pure.keypoints)
       /\ \A i \in DOMAIN pure.value :
             InUnitRange(pure.value[i].x) /\ InUnitRange(pure.value[i].y)

\* A set with a shoulder in the corner of the frame, held there by the
\* clamps, and another joint moved by the whole of its bound.
C18_Witness ==
    /\ pure.op = "addNaturalVariation"
    /\ \E i \in DOMAIN pure.value :
          /\ isStablePoint(pure.keypoints[i].part)
          /\ pure.keypoints[i].x = 0 /\ pure.value[i].x = 0
          /\ pure.keypoints[i].y = CoordOne /\ pure.value[i].y = CoordOne
    /\ \E i \in DOMAIN pure.value :
          Abs(pure.value[i].x - pure.keypoints[i].x) = JitterBound(pure.keypoints[i].part)

----------------------------------------------------------------------------
(* Properties of the interpolation branch and of the seeding (Spec) *)

\* This step is the return of a processFrame call
ProcessFrameReturns ==
    \/ calls' = calls + 1 /\ inflight' = inflight
    \/ calls' = calls /\ inflight' # inflight

\* The keypoint of the displayed set that interpolateKeypoints pairs with
\* the confirmed keypoint kp, if there is one
DisplayedOf(kp) ==
    LET js == {j \in DOMAIN previousFrameKeypoints.kps :
                  previousFrameKeypoints.kps[j].part = kp.part}
    IN IF js = {} THEN Absent
       ELSE Some(<<previousFrameKeypoints.kps[CHOOSE j \in js : \A k \in js : k <= j]>>)

\* shownV is within bound of prev + 0.3 * (confirmed - prev), up to the
\* resolution of the fixed point (ten times the values are compared)
NearThreeTenths(shownV, prev, confirmed, bound) ==
    Abs(10 * shownV - (7 * prev + 3 * confirmed)) <= 10 * bound + 9

\* C19: a call that takes the interpolation branch returns, joint by joint,
\* a position within the jitter bound of prev + 0.3 * (confirmed - prev),
\* prev being the displayed keypoints and confirmed the cached server
\* keypoints; the returned set is the new displayed set, and the cached
\* server keypoints and accuracy stay as they were.
C19_InterpolationStep ==
    [][(ProcessFrameReturns /\ last'.branch = "interpolate")
        => /\ Len(last'.result.keypoints.kps) = Len(lastServerKeypoints.kps)
           /\ \A i \in DOMAIN lastServerKeypoints.kps :
                 LET confirmed == lastServerKeypoints.kps[i]
                     shownKp == last'.result.keypoints.kps[i]
                     paired == DisplayedOf(confirmed)
                 IN paired.present =>
                      /\ NearThreeTenths(shownKp.x, paired.kps[1].x, confirmed.x,
                                         JitterBound(confirmed.part))
                      /\ NearThreeTenths(shownKp.y, paired.kps[1].y, confirmed.y,
                                         JitterBound(confirmed.part))
           /\ previousFrameKeypoints' = last'.result.keypoints
           /\ lastServerKeypoints' = lastServerKeypoints
           /\ lastAccuracy' = lastAccuracy]_vars

\* C20: when the first server result since the start or the last reset comes
\* in (no server keypoints were cached before it), the displayed keypoints
\* are that result afterwards, whatever calls went before.
C20_FirstSuccessSeedsDisplayed ==
    [][(ProcessFrameReturns /\ last'.outcome = "accepted"
            /\ last'.response.keypoints.present
            /\ ~lastServerKeypoints.present)
        => previousFrameKeypoints' = last'.response.keypoints]_vars

----------------------------------------------------------------------------
(* Further properties of the pipeline (Spec) and of the helpers (SpecHelpers) *)

\* C21: a call that sends no request, because the gate skips the server or
\* because the frame is rejected before sending (image data that is not a
\* string), leaves failedAttempts and lastSuccess as they were.
C21_NoRequestNoHealthChange ==
    [][(calls' = calls + 1 /\ inflight' = inflight)
        => serverHealth' = serverHealth]_vars

\* The parts of a keypoint set
PartsOf(keypoints) == {keypoints[i].part : i \in DOMAIN keypoints}

\* C22: interpolateKeypoints gives one keypoint per keypoint of target, with
\* target's parts in target's order; a target keypoint whose part previous
\* does not have comes out unchanged, and no part of previous alone comes out.
C22_OutputFollowsTarget ==
    pure.op = "interpolateKeypoints"
    => /\ Len(pure.value) = Len(pure.targetKeypoints)
       /\ \A i \in DOMAIN pure.targetKeypoints :
             /\ pure.value[i].part = pure.targetKeypoints[i].part
             /\ pure.targetKeypoints[i].part \notin PartsOf(pure.previousKeypoints)
                   => pure.value[i] = pure.targetKeypoints[i]
       /\ PartsOf(pure.value) \subseteq PartsOf(pure.targetKeypoints)

\* Sets that share a joint at different indexes, each with a joint the other
\* lacks, where the interpolation moved the shared joint.
C22_Witness ==
    /\ pure.op = "interpolateKeypoints"
    /\ PartsOf(pure.previousKeypoints) \ PartsOf(pure.targetKeypoints) # {}
    /\ PartsOf(pure.targetKeypoints) \ PartsOf(pure.previousKeypoints) # {}
    /\ pure.previousKeypoints[1].part # pure.targetKeypoints[1].part
    /\ pure.value[1] # pure.targetKeypoints[1]

\* C23: a score is replaced by 0.5 only when it is missing: PoseVisualizer
\* draws no joint whose score is present and below 0.2, and no connection
\* with such a joint at either end, a score of 0 included.
C23_LowScoreNotDrawn ==
    pure.op = "PoseVisualizer"
    => /\ \A i \in pure.value.joints :
             pure.keypoints[i].score.present => pure.keypoints[i].score.value >= 200
       /\ \A c \in pure.value.lines :
             \A e \in 1..2 :
                \A i \in DOMAIN pure.keypoints :
                   (pure.keypoints[i].part = POSE_CONNECTIONS[c][e]
                      /\ pure.keypoints[i].score.present)
                   => pure.keypoints[i].score.value >= 200

----------------------------------------------------------------------------
(* Properties of overlapping calls (SpecOverlap) *)

\* C24: what a call stores in the server cache was estimated for the active
\* pose: the response to a request sent before resetPoseData ran for a pose
\* change does not fill the cache again.
C24_CacheHoldsActivePoseOnly ==
    [][(ProcessFrameReturns /\ last'.outcome = "accepted")
        => last'.poseId = activePose]_vars

\* C25: when calls overlap, the later-issued request wins whatever the order
\* of the responses: the time of the last success never decreases, and an
\* accepted response never replaces a cached result that a later-issued
\* request supplied.
C25_LaterIssuedRequestWins ==
    [][ProcessFrameReturns =>
        /\ serverHealth'.lastSuccess >= serverHealth.lastSuccess
        /\ (last'.outcome = "accepted"
              => lastKeypointsTimestamp' >= lastKeypointsTimestamp)]_vars

----------------------------------------------------------------------------
(* Displayed keypoints *)

\* C26: after every processFrame call the displayed set
\* (previousFrameKeypoints) is the keypoint set the call returned.
C26_DisplayedIsReturned ==
    last.op = "processFrame" => previousFrameKeypoints = last.result.keypoints

\* C27: under any interleaving of processFrame calls and resetPoseData, a
\* cached server result implies a cached displayed set, and a call that
\* falls back interpolates exactly when a server result is cached.
C27_ServerCacheImpliesDisplayed ==
    /\ lastServerKeypoints.present => previousFrameKeypoints.present
    /\ (last.op = "processFrame" /\ last.branch \in {"interpolate", "default"})
          => (last.branch = "interpolate" <=> lastServerKeypoints.present)

\* A call interpolated after a reset while another request was still out.
C27_Witness ==
    /\ last.op = "processFrame"
    /\ last.branch = "interpolate"
    /\ resets > 0
    /\ inflight # {}
    /\ lastServerKeypoints.present
    /\ previousFrameKeypoints.present

----------------------------------------------------------------------------
(* Feedback of the component (SpecEstimator) *)

\* C28: once the stage is 'completed' the feedback text no longer changes:
\* no response to a non-final feedback request still in flight replaces the
\* outcome of the final request.
C28_CompletedFeedbackIsFinal ==
    [][est.stage = "completed" => est'.feedback = est.feedback]_vars

\* C29: after the session has been stopped no new non-final feedback
\* request is started, the 5 s initial-feedback timer included.
C29_NoFeedbackRequestAfterStop ==
    [][shown.ended
        => \A r \in reqs' \ reqs :
               r.kind = "feedbackCapture" => r.isFinal]_vars

----------------------------------------------------------------------------
(* The chat history (SpecChat) *)

\* C30: whatever the interleaving of addMessageToHistory and
\* updateMessageInHistory calls, no update is lost: every message whose add
\* resolved is in the stored history, and every message whose update
\* resolved is stored with the updated text.
C30_NoLostUpdate ==
    /\ \A id \in chat.added :
          \E i \in DOMAIN chat.stored : chat.stored[i].id = id
    /\ \A id \in chat.updated :
          \A i \in DOMAIN chat.stored :
             chat.stored[i].id = id => chat.stored[i].text = ResponseText

====
